---- MODULE Spec2Model ----
(***************************************************************************)
(* Model of the two El Nino 3.4 parsing scripts.                           *)
(*                                                                         *)
(*   test.py     parse_el_nino34_data_from_file: line/regex parser         *)
(*   quantsc.py  module-level script: path check, read_csv, date           *)
(*               derivation, extract_sst_ssta                              *)
(*                                                                         *)
(* Text is modelled character by character: a Python str is a sequence of  *)
(* one-character strings, so that strip, split, the regular expressions,   *)
(* strptime and float are computed as the code computes them.              *)
(***************************************************************************)
EXTENDS Integers, Sequences, FiniteSets, TLC

VARIABLES
    \* ---- test.py ----
    data_string,   \* test.py:17   the file's text
    lines,         \* test.py:20   non-empty stripped lines
    cursor,        \* test.py:32   1-based index in lines of the line the loop is at
    data_rows,     \* test.py:26   rows appended so far
    row_src,       \* history: for each row of data_rows, the index in lines it came from
    parsed_df,     \* test.py:63-68 the returned DataFrame (index Date, two columns)
    t_pc,          \* position of test.py's parse function
    \* ---- quantsc.py ----
    file_exists,   \* quantsc.py:11 os.path.exists(file_path)
    dir_state,     \* quantsc.py:15 what os.listdir(dirname) does
    csv,           \* quantsc.py:24 what the file holds, as whitespace-separated cells
    df,            \* quantsc.py:24.. the DataFrame variable
    data,          \* quantsc.py:76 the cleaned table
    stdout,        \* what has been printed, in order
    exit_status,   \* the process's exit status, -1 while it runs
    q_pc           \* position of quantsc.py

vars == <<data_string, lines, cursor, data_rows, row_src, parsed_df, t_pc,
          file_exists, dir_state, csv, df, data, stdout, exit_status, q_pc>>

t_vars == <<data_string, lines, cursor, data_rows, row_src, parsed_df, t_pc>>
q_vars == <<file_exists, dir_state, csv, df, data, stdout, exit_status, q_pc>>

(***************************************************************************)
(* Characters                                                              *)
(***************************************************************************)
DigitChars == <<"0","1","2","3","4","5","6","7","8","9">>
UpperChars == <<"A","B","C","D","E","F","G","H","I","J","K","L","M",
                "N","O","P","Q","R","S","T","U","V","W","X","Y","Z">>
LowerChars == <<"a","b","c","d","e","f","g","h","i","j","k","l","m",
                "n","o","p","q","r","s","t","u","v","w","x","y","z">>

Range(s) == {s[k] : k \in DOMAIN s}

DigitSet == Range(DigitChars)
UpperSet == Range(UpperChars)
LowerSet == Range(LowerChars)
SpaceSet == {" ", "\t", "\r", "\n"}

\* \d
IsDigit(c) == c \in DigitSet
\* [A-Z]
IsUpper(c) == c \in UpperSet
\* \s, and what str.strip() removes
IsSpace(c) == c \in SpaceSet

DigitVal(c) == (CHOOSE k \in DOMAIN DigitChars : DigitChars[k] = c) - 1

\* str.upper() on one character
UpperOf(c) ==
    IF c \in LowerSet
    THEN UpperChars[CHOOSE k \in DOMAIN LowerChars : LowerChars[k] = c]
    ELSE c

\* s[a:b] of Python for 0 <= a, with b clamped (1-based SubSeq underneath)
Slice(s, a, b) ==
    LET hi == IF b > Len(s) THEN Len(s) ELSE b
    IN  IF a >= hi THEN <<>> ELSE SubSeq(s, a + 1, hi)

\* s[-n:] of Python
Tail_n(s, n) == IF Len(s) <= n THEN s ELSE SubSeq(s, Len(s) - n + 1, Len(s))

\* the end (exclusive, 0-based) of the longest run of digits starting at 0-based p
RECURSIVE DigitsEnd(_, _)
DigitsEnd(s, p) ==
    IF p < Len(s) /\ IsDigit(s[p + 1]) THEN DigitsEnd(s, p + 1) ELSE p

\* int of a non-empty digit string
RECURSIVE DigitsValue(_)
DigitsValue(s) ==
    IF s = <<>> THEN 0
    ELSE 10 * DigitsValue(SubSeq(s, 1, Len(s) - 1)) + DigitVal(s[Len(s)])

AllDigits(s) == s # <<>> /\ \A k \in DOMAIN s : IsDigit(s[k])

(***************************************************************************)
(* str.strip, str.split('\n'), re.split(r'\s+', ...)                       *)
(***************************************************************************)
\* the end (exclusive, 0-based) of the run of whitespace starting at 0-based p
RECURSIVE SpaceEnd(_, _)
SpaceEnd(s, p) ==
    IF p < Len(s) /\ IsSpace(s[p + 1]) THEN SpaceEnd(s, p + 1) ELSE p

\* the end (exclusive, 0-based) of the run of non-whitespace starting at 0-based p
RECURSIVE NonSpaceEnd(_, _)
NonSpaceEnd(s, p) ==
    IF p < Len(s) /\ ~IsSpace(s[p + 1]) THEN NonSpaceEnd(s, p + 1) ELSE p

\* the start (0-based) of the run of whitespace that ends at e (exclusive)
RECURSIVE SpaceStart(_, _)
SpaceStart(s, e) ==
    IF e > 0 /\ IsSpace(s[e]) THEN SpaceStart(s, e - 1) ELSE e

\* the first 0-based position at or after p that holds c, Len(s) when none does
RECURSIVE FindChar(_, _, _)
FindChar(s, c, p) ==
    IF p < Len(s) /\ s[p + 1] # c THEN FindChar(s, c, p + 1) ELSE p

\* line.strip()
Strip(s) == Slice(s, SpaceEnd(s, 0), SpaceStart(s, Len(s)))

\* s.split(sep) for a one-character sep: always at least one piece
RECURSIVE SplitFrom(_, _, _)
SplitFrom(s, sep, p) ==
    LET k == FindChar(s, sep, p)
    IN  IF k = Len(s) THEN <<Slice(s, p, k)>>
        ELSE <<Slice(s, p, k)>> \o SplitFrom(s, sep, k + 1)

SplitOn(s, sep) == SplitFrom(s, sep, 0)

\* re.split(r'\s+', s): cut at every maximal run of whitespace
RECURSIVE SplitWsFrom(_, _)
SplitWsFrom(s, p) ==
    LET k == NonSpaceEnd(s, p)
    IN  IF k = Len(s) THEN <<Slice(s, p, k)>>
        ELSE <<Slice(s, p, k)>> \o SplitWsFrom(s, SpaceEnd(s, k))

SplitWs(s) == SplitWsFrom(s, 0)

\* test.py:20
RECURSIVE StripNonEmpty(_)
StripNonEmpty(raw) ==
    IF raw = <<>> THEN <<>>
    ELSE LET l == Strip(Head(raw))
         IN  (IF l # <<>> THEN <<l>> ELSE <<>>) \o StripNonEmpty(Tail(raw))

ReadLines(text) == StripNonEmpty(SplitOn(text, "\n"))

(***************************************************************************)
(* Calendar                                                                *)
(***************************************************************************)
\* quantsc.py:54-55 month_map keys; the English %b names of strptime, upper-cased
MonthAbbr == << <<"J","A","N">>, <<"F","E","B">>, <<"M","A","R">>, <<"A","P","R">>,
                <<"M","A","Y">>, <<"J","U","N">>, <<"J","U","L">>, <<"A","U","G">>,
                <<"S","E","P">>, <<"O","C","T">>, <<"N","O","V">>, <<"D","E","C">> >>

\* month number of a three-letter key, 0 when it is no key
MonthIndex(abbr) ==
    IF \E k \in DOMAIN MonthAbbr : MonthAbbr[k] = abbr
    THEN CHOOSE k \in DOMAIN MonthAbbr : MonthAbbr[k] = abbr
    ELSE 0

IsLeap(y) == (y % 4 = 0 /\ y % 100 # 0) \/ y % 400 = 0

DaysInMonth(y, m) ==
    IF m = 2 THEN (IF IsLeap(y) THEN 29 ELSE 28)
    ELSE IF m \in {4, 6, 9, 11} THEN 30 ELSE 31

UpperStr(s) == [k \in DOMAIN s |-> UpperOf(s[k])]

NoDate == [ok |-> FALSE, year |-> 0, month |-> 0, day |-> 0]

\* width of the text the %d group (3[0-1]|[1-2]\d|0[1-9]|[1-9]| [1-9]) takes at the
\* start of s, trying the alternatives in the regex's order and keeping the first
\* after which the rest of the format matches to the end of s; 0 when none does
StrptimeRest(s, n) ==
    /\ Len(s) = n + 7
    /\ MonthIndex(UpperStr(SubSeq(s, n + 1, n + 3))) # 0
    /\ AllDigits(SubSeq(s, n + 4, n + 7))

StrptimeDayWidth(s) ==
    LET nz    == {"1","2","3","4","5","6","7","8","9"}
        two   == /\ Len(s) >= 2
                 /\ \/ s[1] = "3" /\ s[2] \in {"0", "1"}
                    \/ s[1] \in {"1", "2"} /\ IsDigit(s[2])
                    \/ s[1] = "0" /\ s[2] \in nz
        one   == Len(s) >= 1 /\ s[1] \in nz
        blank == Len(s) >= 2 /\ s[1] = " " /\ s[2] \in nz
    IN  IF two /\ StrptimeRest(s, 2) THEN 2
        ELSE IF one /\ StrptimeRest(s, 1) THEN 1
        ELSE IF blank /\ StrptimeRest(s, 2) THEN 2
        ELSE 0

\* datetime.strptime(s, "%d%b%Y"): ok = FALSE is the ValueError
Strptime(s) ==
    LET n == StrptimeDayWidth(s)
    IN  IF n = 0 THEN NoDate
        ELSE LET d == DigitsValue(Strip(SubSeq(s, 1, n)))
                 m == MonthIndex(UpperStr(SubSeq(s, n + 1, n + 3)))
                 y == DigitsValue(SubSeq(s, n + 4, n + 7))
             IN  IF y >= 1 /\ d <= DaysInMonth(y, m)
                 THEN [ok |-> TRUE, year |-> y, month |-> m, day |-> d]
                 ELSE NoDate

(***************************************************************************)
(* float(), the two regular expressions of test.py                         *)
(***************************************************************************)
\* the character at 0-based position p, "" past the end
CharAt(s, p) == IF p < Len(s) THEN s[p + 1] ELSE ""

RECURSIVE StripZeros(_)
StripZeros(s) ==
    IF s # <<>> /\ s[Len(s)] = "0" THEN StripZeros(SubSeq(s, 1, Len(s) - 1)) ELSE s

NoFloat == [ok |-> FALSE, num |-> 0, exp |-> 0]

\* float(s) for the decimal literals [sign] digits [. [digits]] and [sign] . digits;
\* ok = FALSE is the ValueError. The value is num / 10^exp, in lowest form, so that
\* equal floats are equal records.
Float(s0) ==
    LET s    == Strip(s0)
        sgn  == IF CharAt(s, 0) = "-" THEN -1 ELSE 1
        b    == IF CharAt(s, 0) \in {"-", "+"} THEN 1 ELSE 0
        e1   == DigitsEnd(s, b)
        dot  == CharAt(s, e1) = "."
        e2   == IF dot THEN DigitsEnd(s, e1 + 1) ELSE e1
        ip   == Slice(s, b, e1)
        fp   == IF dot THEN StripZeros(Slice(s, e1 + 1, e2)) ELSE <<>>
    IN  IF e2 = Len(s) /\ (e1 > b \/ (dot /\ e2 > e1 + 1))
        THEN [ok |-> TRUE, num |-> sgn * DigitsValue(ip \o fp), exp |-> Len(fp)]
        ELSE NoFloat

\* test.py:29,34 date_pattern.search(line): \d{2}[A-Z]{3}\d{4} anywhere in the line
DatePatternSearch(line) ==
    \E p \in 1..(Len(line) - 8) :
        /\ IsDigit(line[p]) /\ IsDigit(line[p + 1])
        /\ IsUpper(line[p + 2]) /\ IsUpper(line[p + 3]) /\ IsUpper(line[p + 4])
        /\ \A k \in 5..8 : IsDigit(line[p + k])

NoMatch == [ok |-> FALSE, g1 |-> <<>>, g2 |-> <<>>, end |-> 0]

\* test.py:56 re.match(r'(\d+\.\d+)([-+]\d+\.\d+)', tok): anchored at the start only.
\* Every \d+ is followed by a non-digit of the pattern, so the greedy run is the match.
ReMatchPair(tok) ==
    LET e1 == DigitsEnd(tok, 0)
        e2 == DigitsEnd(tok, e1 + 1)
        e3 == DigitsEnd(tok, e2 + 1)
        e4 == DigitsEnd(tok, e3 + 1)
    IN  IF /\ e1 > 0 /\ CharAt(tok, e1) = "."
           /\ e2 > e1 + 1 /\ CharAt(tok, e2) \in {"-", "+"}
           /\ e3 > e2 + 1 /\ CharAt(tok, e3) = "."
           /\ e4 > e3 + 1
        THEN [ok |-> TRUE, g1 |-> Slice(tok, 0, e2), g2 |-> Slice(tok, e2, e4), end |-> e4]
        ELSE NoMatch

(***************************************************************************)
(* Input text: tokens and lines of the NOAA bulletin the runs are fed      *)
(***************************************************************************)
TokWeek == <<"W","e","e","k">>  \* Week
TokNino34 == <<"N","i","n","o","3","4">>  \* Nino34
Tok02SEP1981 == <<"0","2","S","E","P","1","9","8","1">>  \* 02SEP1981
Tok09SEP1981 == <<"0","9","S","E","P","1","9","8","1">>  \* 09SEP1981
Tok31FEB1990 == <<"3","1","F","E","B","1","9","9","0">>  \* 31FEB1990
Tok16SEP1981 == <<"1","6","S","E","P","1","9","8","1">>  \* 16SEP1981
Tok23SEP1981 == <<"2","3","S","E","P","1","9","8","1">>  \* 23SEP1981
Tok30SEP1981 == <<"3","0","S","E","P","1","9","8","1">>  \* 30SEP1981
TokN12 == <<"2","5",".","3","0","+","0",".","5","0">>  \* 25.30+0.50
TokN3 == <<"2","6",".","1","0","-","0",".","2","0">>  \* 26.10-0.20
TokN34 == <<"2","7",".","4","5","+","1",".","1","0">>  \* 27.45+1.10
TokN4 == <<"2","8",".","4","-","0",".","3">>  \* 28.4-0.3
TokN4Sentinel == <<"2","7",".","4","5","-","9","9",".","9","9">>  \* 27.45-99.99
TokN4Trailing == <<"2","7",".","4","5","+","1",".","1","0","x">>  \* 27.45+1.10x
TokN4Missing == <<"-","9","9",".","9","9","-","9","9",".","9","9">>  \* -99.99-99.99

RECURSIVE JoinWith(_, _)
JoinWith(pieces, sep) ==
    IF Len(pieces) = 0 THEN <<>>
    ELSE IF Len(pieces) = 1 THEN pieces[1]
    ELSE pieces[1] \o sep \o JoinWith(SubSeq(pieces, 2, Len(pieces)), sep)

\* whitespace only
LineBlank    == <<" ", "\t">>
\* a header line: no date token, leading blank
LineHeader   == <<" ">> \o JoinWith(<<TokWeek, TokNino34>>, <<" ", " ">>)
\* "02SEP1981 25.30+0.50 26.10-0.20 27.45+1.10": date, Nino1+2, Nino3, Nino3.4
LineExample  == JoinWith(<<Tok02SEP1981, TokN12, TokN3, TokN34>>, <<" ">>)
\* the same layout with a fourth region pair (Nino4) "28.4-0.3"
LineGood     == JoinWith(<<Tok09SEP1981, TokN12, TokN3, TokN34, TokN4>>, <<" ">>)
\* an impossible day/month in field 0
LineBadDate  == JoinWith(<<Tok31FEB1990, TokN12, TokN3, TokN34, TokN4>>, <<" ">>)
\* the sentinel as the signed part of the field-4 pair
LineSentinel == JoinWith(<<Tok16SEP1981, TokN12, TokN3, TokN34, TokN4Sentinel>>, <<" ">>)
\* a field-4 pair followed by one more character
LineTrailing == JoinWith(<<Tok23SEP1981, TokN12, TokN3, TokN34, TokN4Trailing>>, <<" ">>)
\* a field 4 that does not begin with an unsigned decimal
LineNoSplit  == JoinWith(<<Tok30SEP1981, TokN12, TokN3, TokN34, TokN4Missing>>, <<"\t">>)

LinePool == {LineBlank, LineHeader, LineExample, LineGood, LineBadDate,
             LineSentinel, LineTrailing, LineNoSplit}

\* the number of raw lines of an input file of arbitrary lines
MaxLines == 4
\* the number of lines that follow the header block of a bulletin
MaxData == 3

\* the three header lines of a bulletin, a blank line among them
HeaderBlock == <<LineHeader, LineBlank, LineHeader, LineHeader>>

\* the input files: every short file of lines of the pool (headers of any content,
\* blank lines anywhere), and every bulletin of a header block and a longer body
Files ==
    UNION {[1..n -> LinePool] : n \in 0..MaxLines}
    \cup {HeaderBlock \o d : d \in UNION {[1..n -> LinePool] : n \in 0..MaxData}}

(***************************************************************************)
(* test.py: parse_el_nino34_data_from_file                                 *)
(***************************************************************************)
\* fault variant of HeaderLines: the loop starts one line early, lines[2:]
HeaderLinesTwo == 3 - 1

\* test.py:32 lines[3:]
HeaderLines == 3
\* test.py:52 len(parts) >= 5
MinParts == 5
\* test.py:53 parts[4]
Nino34Field == 4

\* fault variant of ParseDate: no except clause, the ValueError leaves the function
ParseDateUncaught(date_str) ==
    LET r == Strptime(date_str)
    IN  [raised |-> ~r.ok,
         value  |-> [isdate |-> r.ok, year |-> r.year, month |-> r.month,
                     day |-> r.day, text |-> <<>>]]

\* test.py:44-48: a datetime, or on ValueError the token itself; the exception
\* does not leave the try statement
ParseDate(date_str) ==
    LET r == Strptime(date_str)
    IN  [raised |-> FALSE,
         value  |-> IF r.ok
                    THEN [isdate |-> TRUE, year |-> r.year, month |-> r.month,
                          day |-> r.day, text |-> <<>>]
                    ELSE [isdate |-> FALSE, year |-> 0, month |-> 0,
                          day |-> 0, text |-> date_str]]

Skip  == [kind |-> "skip",  row |-> <<>>]
Raise == [kind |-> "raise", row |-> <<>>]

\* test.py:34-60, the body of the loop for one line: the row it appends
\* ("row"), nothing ("skip"), or an exception that leaves the function ("raise")
LineOutcome(line) ==
    IF ~DatePatternSearch(line) THEN Skip
    ELSE LET parts == SplitWs(Strip(line))
         IN  IF Len(parts) = 0 THEN Raise
             ELSE LET date == ParseDate(parts[1])
                  IN  IF date.raised THEN Raise
                      ELSE IF Len(parts) >= MinParts
                      THEN LET match == ReMatchPair(parts[Nino34Field + 1])
                           IN  IF match.ok
                               THEN LET sst  == Float(match.g1)
                                        ssta == Float(match.g2)
                                    IN  IF sst.ok /\ ssta.ok
                                        THEN [kind |-> "row",
                                              row  |-> <<date.value,
                                                         [num |-> sst.num, exp |-> sst.exp],
                                                         [num |-> ssta.num, exp |-> ssta.exp]>>]
                                        ELSE Raise
                               ELSE Skip
                      ELSE Skip

\* fault variant of AppendRow: data_rows.insert(0, ...)
AppendRowFront(rows, row) == <<row>> \o rows

\* test.py:60 data_rows.append(...)
AppendRow(rows, row) == Append(rows, row)

\* test.py:63-66 pd.DataFrame(data_rows, columns=[...]) and set_index('Date')
BuildDataFrame(rows) ==
    [k \in DOMAIN rows |-> [Date        |-> rows[k][1],
                            Nino34_SST  |-> rows[k][2],
                            Nino34_SSTA |-> rows[k][3]]]

QuantscIdle ==
    /\ file_exists = TRUE /\ dir_state = "listable" /\ csv = <<>> /\ df = <<>>
    /\ data = <<>> /\ stdout = <<>> /\ exit_status = -1 /\ q_pc = "idle"

InitParse ==
    /\ data_string \in {JoinWith(f, <<"\n">>) : f \in Files}
    /\ lines = <<>> /\ cursor = 0 /\ data_rows = <<>> /\ row_src = <<>>
    /\ parsed_df = <<>> /\ t_pc = "open"
    /\ QuantscIdle

\* test.py:16-20
ReadFile ==
    /\ t_pc = "open"
    /\ lines' = ReadLines(data_string)
    /\ cursor' = HeaderLines + 1
    /\ t_pc' = "loop"
    /\ UNCHANGED <<data_string, data_rows, row_src, parsed_df>>
    /\ UNCHANGED q_vars

\* test.py:32-60, one iteration
ProcessLine ==
    /\ t_pc = "loop"
    /\ cursor <= Len(lines)
    /\ LET o == LineOutcome(lines[cursor])
       IN  /\ data_rows' = IF o.kind = "row" THEN AppendRow(data_rows, o.row) ELSE data_rows
           /\ row_src'   = IF o.kind = "row" THEN AppendRow(row_src, cursor) ELSE row_src
           /\ t_pc'      = IF o.kind = "raise" THEN "raised" ELSE "loop"
    /\ cursor' = cursor + 1
    /\ UNCHANGED <<data_string, lines, parsed_df>>
    /\ UNCHANGED q_vars

\* test.py:62-68, after the last line
ReturnFrame ==
    /\ t_pc = "loop"
    /\ cursor > Len(lines)
    /\ parsed_df' = BuildDataFrame(data_rows)
    /\ t_pc' = "done"
    /\ UNCHANGED <<data_string, lines, cursor, data_rows, row_src>>
    /\ UNCHANGED q_vars

NextParse == ReadFile \/ ProcessLine \/ ReturnFrame

SpecParse == InitParse /\ [][NextParse]_vars

(***************************************************************************)
(* Claims about test.py, checked under SpecParse                           *)
(***************************************************************************)
\* the lines the loop of test.py:32 runs over
DataLineIdx == {j \in DOMAIN lines : j > 3}

\* the whitespace-separated fields of a stripped line
Fields(line) == SplitWs(line)

\* the whole token is an unsigned decimal followed by one signed decimal
IsWholePair(tok) == ReMatchPair(tok).ok /\ ReMatchPair(tok).end = Len(tok)

NumOf(text) == [num |-> Float(text).num, exp |-> Float(text).exp]

\* the record (date, sst, ssta) read off a date token and a pair token
RecordOf(date_tok, pair_tok) ==
    [Date        |-> [isdate |-> TRUE, year |-> Strptime(date_tok).year,
                      month |-> Strptime(date_tok).month,
                      day |-> Strptime(date_tok).day, text |-> <<>>],
     Nino34_SST  |-> NumOf(ReMatchPair(pair_tok).g1),
     Nino34_SSTA |-> NumOf(ReMatchPair(pair_tok).g2)]

\* the missing-value sentinel -99.99 as a number
SentinelValue == [num |-> 0 - 9999, exp |-> 2]

\* C1: every record of the returned table has a date that was parsed from field 0
\* of its line as a calendar date; a line whose field 0 does not parse contributes
\* no record.
C1_EveryRecordHasParsedDate ==
    t_pc = "done" =>
        \A k \in DOMAIN parsed_df :
            /\ parsed_df[k].Date.isdate
            /\ Strptime(Fields(lines[row_src[k]])[1]).ok

\* a line of the token-stream layout: a date token, then the pairs of Nino1+2,
\* Nino3 and Nino3.4 (further regions may follow)
IsTokenStreamLine(line) ==
    LET f == Fields(line)
    IN  /\ Len(f) >= 4
        /\ Strptime(f[1]).ok
        /\ \A n \in 2..4 : IsWholePair(f[n])

\* C2: every data line of the token-stream layout yields exactly one record, with
\* the date token's date and the Nino3.4 pair (the third pair) split into sst, ssta.
C2_TokenStreamLineYieldsNino34 ==
    t_pc = "done" =>
        \A j \in DataLineIdx :
            IsTokenStreamLine(lines[j]) =>
                /\ Cardinality({k \in DOMAIN row_src : row_src[k] = j}) = 1
                /\ \A k \in DOMAIN row_src :
                       row_src[k] = j =>
                           parsed_df[k] = RecordOf(Fields(lines[j])[1], Fields(lines[j])[4])

\* C4: no record of the returned table holds the sentinel -99.99 as sst or ssta.
C4_NoSentinelInTable ==
    t_pc = "done" =>
        \A k \in DOMAIN parsed_df :
            /\ parsed_df[k].Nino34_SST # SentinelValue
            /\ parsed_df[k].Nino34_SSTA # SentinelValue

\* a data line that is not malformed: it holds a date token, has at least five
\* fields, its field 0 parses as a date and its field 4 splits into a pair
IsWellFormedLine(line) ==
    LET f == Fields(line)
    IN  /\ DatePatternSearch(line)
        /\ Len(f) >= 5
        /\ Strptime(f[1]).ok
        /\ ReMatchPair(f[5]).ok

\* a data line that is malformed in one of the three ways
IsMalformedLine(line) ==
    LET f == Fields(line)
    IN  /\ DatePatternSearch(line)
        /\ \/ Len(f) < 5
           \/ ~Strptime(f[1]).ok
           \/ ~ReMatchPair(f[5]).ok

\* C5: no line makes the function raise; every step of the loop moves on to the
\* next line or, after the last line, returns the table; and in the returned table
\* every well-formed data line has its record, whatever the lines around it.
C5_Safe ==
    /\ t_pc \in {"open", "loop", "done"}
    /\ t_pc = "done" =>
           \A j \in DataLineIdx :
               IsWellFormedLine(lines[j]) =>
                   \E k \in DOMAIN row_src :
                       /\ row_src[k] = j
                       /\ parsed_df[k] = RecordOf(Fields(lines[j])[1], Fields(lines[j])[5])

C5_Step ==
    /\ t_pc = "open" => t_pc' = "loop"
    /\ t_pc = "loop" =>
           \/ t_pc' = "loop" /\ cursor <= Len(lines) /\ cursor' = cursor + 1
           \/ t_pc' = "done" /\ cursor > Len(lines)

\* C5: a malformed data line never aborts the function: C5_Safe holds in every
\* state and every step is a C5_Step.
C5_MalformedLineNeverAborts == []C5_Safe /\ [][C5_Step]_vars

\* C5 witness: a returned table with the records of two well-formed data lines,
\* one before and one after a malformed data line
C5_Witness ==
    /\ t_pc = "done"
    /\ \E a, b, c \in DataLineIdx :
           /\ a < b /\ b < c
           /\ IsWellFormedLine(lines[a]) /\ IsMalformedLine(lines[b])
           /\ IsWellFormedLine(lines[c])
           /\ {a, c} \subseteq Range(row_src)

\* C8: the rows are an order-preserving subsequence of the data lines: each row
\* is the row of one line after the headers, later rows come from later lines (so
\* no line gives two rows), and the returned table keeps that order.
C8_RowsInSourceOrder ==
    /\ Len(row_src) = Len(data_rows)
    /\ \A k \in DOMAIN row_src :
           /\ row_src[k] \in DataLineIdx
           /\ LineOutcome(lines[row_src[k]]).kind = "row"
           /\ data_rows[k] = LineOutcome(lines[row_src[k]]).row
    /\ \A k, n \in DOMAIN row_src : k < n => row_src[k] < row_src[n]
    /\ t_pc = "done" =>
           /\ Len(parsed_df) = Len(data_rows)
           /\ \A k \in DOMAIN parsed_df :
                  /\ parsed_df[k].Date = data_rows[k][1]
                  /\ parsed_df[k].Nino34_SST = data_rows[k][2]
                  /\ parsed_df[k].Nino34_SSTA = data_rows[k][3]

\* C8 witness: a returned table of three records, two of them with the same date
\* and a different one between them
C8_Witness ==
    /\ t_pc = "done"
    /\ Len(parsed_df) = 3
    /\ parsed_df[1].Date = parsed_df[3].Date
    /\ parsed_df[1].Date # parsed_df[2].Date

\* C9: a line gives a record only if its whole field 4 is an unsigned decimal
\* followed by one signed decimal.
C9_OnlyWholePairGivesRecord ==
    \A k \in DOMAIN row_src : IsWholePair(Fields(lines[row_src[k]])[5])

\* the indices of the raw lines that hold a character other than whitespace
NonBlankIdx(raw) == {k \in DOMAIN raw : \E n \in DOMAIN raw[k] : ~IsSpace(raw[k][n])}

\* C10: the lines are the input's non-blank lines, trimmed, in order; no record
\* comes from the first three of them or from a line without a date token; the
\* loop starts at the fourth and has examined every later one when it returns.
C10_ThreeHeaderLinesDropped ==
    /\ t_pc # "open" =>
           LET raw == SplitOn(data_string, "\n")
               nb  == NonBlankIdx(raw)
           IN  /\ Len(lines) = Cardinality(nb)
               /\ \A k \in nb :
                      lines[Cardinality({x \in nb : x <= k})] = Strip(raw[k])
    /\ \A k \in DOMAIN row_src :
           /\ row_src[k] > 3
           /\ DatePatternSearch(lines[row_src[k]])
    /\ t_pc = "loop" => cursor >= 4
    /\ t_pc = "done" => cursor = (IF Len(lines) > 3 THEN Len(lines) ELSE 3) + 1

\* C10 witness: a returned table after a blank line among the headers, a fourth
\* non-blank line without a date token and a fifth line that gave a record
C10_Witness ==
    /\ t_pc = "done"
    /\ LET raw == SplitOn(data_string, "\n")
       IN  \E k \in DOMAIN raw : k \notin NonBlankIdx(raw) /\ k < 4
    /\ Len(lines) >= 5
    /\ ~DatePatternSearch(lines[4])
    /\ 5 \in Range(row_src)

(***************************************************************************)
(* quantsc.py: the module-level script                                     *)
(***************************************************************************)
Tok15JAN1985 == <<"1","5","J","A","N","1","9","8","5">>  \* 15JAN1985
Tok02XYZ1981 == <<"0","2","X","Y","Z","1","9","8","1">>  \* 02XYZ1981
Cell2680m030 == <<"2","6",".","8","0","-","0",".","3","0">>  \* 26.80-0.30
Cell2710m020 == <<"2","7",".","1","0","-","0",".","2","0">>  \* 27.10-0.20
CellSentinel == <<"-","9","9",".","9","9">>  \* -99.99
Cell2680 == <<"2","6",".","8","0">>  \* 26.80

\* the rows of the file as read_csv sees them after the header row: the first
\* column (renamed Week at quantsc.py:33) and the cell of the Nino34 column
RowExample    == [Week |-> Tok15JAN1985, Nino34 |-> Cell2680m030]
RowBadDay     == [Week |-> Tok31FEB1990, Nino34 |-> Cell2710m020]
RowBadMonth   == [Week |-> Tok02XYZ1981, Nino34 |-> Cell2710m020]
RowSentinel   == [Week |-> Tok02SEP1981, Nino34 |-> CellSentinel]
RowNoHyphen   == [Week |-> Tok09SEP1981, Nino34 |-> Cell2680]
RowPlusSign   == [Week |-> Tok16SEP1981, Nino34 |-> TokN34]
\* a header row repeated among the data
RowHeader     == [Week |-> TokWeek, Nino34 |-> TokNino34]

RowPool == {RowExample, RowBadDay, RowBadMonth, RowSentinel, RowNoHyphen,
            RowPlusSign, RowHeader}

\* the number of data rows of the file
MaxRows == 3

\* what the file holds: unreadable (read_csv raises), or a table with or without
\* a column named Nino34
CsvFiles ==
    {[readable |-> FALSE, has_nino34 |-> FALSE, rows |-> <<>>]}
    \cup {[readable |-> TRUE, has_nino34 |-> h, rows |-> r] :
            h \in BOOLEAN, r \in UNION {[1..n -> RowPool] : n \in 0..MaxRows}}

\* a cell that holds no number: None, NaN
NoNumber == [none |-> TRUE, num |-> 0, exp |-> 0]
Number(f) == [none |-> FALSE, num |-> f.num, exp |-> f.exp]

\* quantsc.py:28 na_values="-99.99": the cell text read_csv turns into NaN
IsNaValue(text) == text = CellSentinel

\* quantsc.py:24-30 pd.read_csv: a cell equal to the na_values text is NaN; a
\* column whose other cells are all numbers is a float column, and any other
\* column keeps its cells as str
ReadCsvTable(rows) ==
    LET numeric == \A k \in DOMAIN rows :
                       IsNaValue(rows[k].Nino34) \/ Float(rows[k].Nino34).ok
        cell(text) == IF IsNaValue(text)
                      THEN [kind |-> "nan", text |-> <<>>, value |-> NoNumber]
                      ELSE IF numeric
                      THEN [kind |-> "num", text |-> <<>>, value |-> Number(Float(text))]
                      ELSE [kind |-> "str", text |-> text, value |-> NoNumber]
    IN  [k \in DOMAIN rows |-> [Week |-> rows[k].Week, Nino34 |-> cell(rows[k].Nino34)]]

\* quantsc.py:44 df.dropna(): rows with a NaN in any column go
DropNa(rows) ==
    LET keep(r) == r.Nino34.kind # "nan"
    IN  SelectSeq(rows, keep)

\* int(text) as astype(int) applies it: ok = FALSE is the ValueError
IntOf(text) ==
    LET b == IF CharAt(text, 0) \in {"-", "+"} THEN 1 ELSE 0
        d == Slice(text, b, Len(text))
    IN  IF AllDigits(d)
        THEN [ok |-> TRUE,
              value |-> (IF CharAt(text, 0) = "-" THEN 0 - 1 ELSE 1) * DigitsValue(d)]
        ELSE [ok |-> FALSE, value |-> 0]

\* quantsc.py:50 df['Week'].str[-4:]
YearText(week) == Tail_n(week, 4)
\* quantsc.py:53 df['Week'].str[2:5]
MonthText(week) == Slice(week, 2, 5)
\* quantsc.py:59 df['Week'].str[:2]
DayText(week) == Slice(week, 0, 2)

\* quantsc.py:62 pd.to_datetime(df[['Year','Month','Day']], errors='coerce') for one
\* row: the three numbers are assembled into year*10000 + month*100 + day and read
\* back as %Y%m%d; month 0 stands for the NaN of an unmapped month. ok = FALSE is
\* NaT: no such calendar day, or a day outside the range of a Timestamp.
ToDatetime(y, m, d) ==
    LET v == y * 10000 + m * 100 + d
    IN  IF /\ m \in 1..12
           /\ d >= 1 /\ d <= DaysInMonth(y, m)
           /\ v >= 16770922 /\ v <= 22620411
        THEN [ok |-> TRUE, year |-> y, month |-> m, day |-> d]
        ELSE NoDate

\* quantsc.py:50-62 for one row: the Date of its week label
WeekDate(week) ==
    ToDatetime(IntOf(YearText(week)).value, MonthIndex(MonthText(week)),
               IntOf(DayText(week)).value)

\* fault variant of DatesRaise: errors='raise', a label that names no calendar
\* day raises ValueError as well
DatesRaiseOnBadDate(rows) ==
    \E k \in DOMAIN rows :
        \/ ~IntOf(YearText(rows[k].Week)).ok \/ ~IntOf(DayText(rows[k].Week)).ok
        \/ ~WeekDate(rows[k].Week).ok

\* quantsc.py:50,59 astype(int) raises ValueError for the column as a whole
DatesRaise(rows) ==
    \E k \in DOMAIN rows :
        ~IntOf(YearText(rows[k].Week)).ok \/ ~IntOf(DayText(rows[k].Week)).ok

\* quantsc.py:62-64 the rows whose Date is not NaT, each with its Date (the index)
WithDates(rows) ==
    LET keep(r) == WeekDate(r.Week).ok
        kept == SelectSeq(rows, keep)
    IN  [k \in DOMAIN kept |->
            [Week |-> kept[k].Week, Nino34 |-> kept[k].Nino34,
             Date |-> WeekDate(kept[k].Week)]]

\* quantsc.py:67-71 extract_sst_ssta(value): the pair, or the exception it raises
extract_sst_ssta(value) ==
    IF value.kind = "str"
    THEN LET parts == SplitOn(value.text, "-")
             first == Float(parts[1])
         IN  IF ~first.ok
             THEN [exc |-> "ValueError", sst |-> NoNumber, ssta |-> NoNumber]
             ELSE IF Len(parts) < 2
             THEN [exc |-> "IndexError", sst |-> NoNumber, ssta |-> NoNumber]
             ELSE IF ~Float(parts[2]).ok
             THEN [exc |-> "ValueError", sst |-> NoNumber, ssta |-> NoNumber]
             ELSE [exc |-> "none", sst |-> Number(first), ssta |-> Number(Float(parts[2]))]
    ELSE [exc |-> "none", sst |-> NoNumber, ssta |-> NoNumber]

\* quantsc.py:73 the exception of the statement, "none" when it completes: KeyError
\* without the column, the exception of the first row that raises in apply, and
\* ValueError when zip(*...) of no rows gives nothing to unpack
ExtractException(has_nino34, rows) ==
    LET bad == {k \in DOMAIN rows : extract_sst_ssta(rows[k].Nino34).exc # "none"}
    IN  IF ~has_nino34 THEN "KeyError"
        ELSE IF bad # {}
        THEN extract_sst_ssta(rows[CHOOSE k \in bad : \A j \in bad : k <= j].Nino34).exc
        ELSE IF rows = <<>> THEN "ValueError"
        ELSE "none"

\* quantsc.py:73 the two new columns
WithColumns(rows) ==
    [k \in DOMAIN rows |->
        [Week |-> rows[k].Week, Nino34 |-> rows[k].Nino34, Date |-> rows[k].Date,
         Nino34_SST  |-> extract_sst_ssta(rows[k].Nino34).sst,
         Nino34_SSTA |-> extract_sst_ssta(rows[k].Nino34).ssta]]

\* quantsc.py:76 df[['Week', 'Nino34_SST', 'Nino34_SSTA']].copy(), indexed by Date
CleanedTable(rows) ==
    [k \in DOMAIN rows |->
        [Date |-> rows[k].Date, Week |-> rows[k].Week,
         Nino34_SST |-> rows[k].Nino34_SST, Nino34_SSTA |-> rows[k].Nino34_SSTA]]

\* exit() with no argument: SystemExit(None), exit status 0
ExitCall == 0
\* an exception no handler catches: traceback, exit status 1
UncaughtExit == 1

ParseIdle ==
    /\ data_string = <<>> /\ lines = <<>> /\ cursor = 0 /\ data_rows = <<>>
    /\ row_src = <<>> /\ parsed_df = <<>> /\ t_pc = "idle"

\* a file that exists lies in a directory that can be listed; a missing file may
\* lie in a directory that is listed, is missing too, or cannot be listed
InitQuantsc ==
    /\ \/ /\ file_exists = TRUE /\ dir_state = "listable"
          /\ csv \in CsvFiles
       \/ /\ file_exists = FALSE /\ dir_state \in {"listable", "missing", "unlistable"}
          /\ csv = [readable |-> FALSE, has_nino34 |-> FALSE, rows |-> <<>>]
    /\ df = <<>> /\ data = <<>> /\ stdout = <<>> /\ exit_status = 0 - 1
    /\ q_pc = "check"
    /\ ParseIdle

Exit(messages, status) ==
    /\ stdout' = stdout \o messages
    /\ exit_status' = status
    /\ q_pc' = "exited"

\* quantsc.py:8-20
CheckPath ==
    /\ q_pc = "check"
    /\ IF ~file_exists
       THEN /\ IF dir_state = "listable"
               THEN Exit(<<"File Path", "ERROR: File does NOT exist!",
                           "Files in directory:", "listing">>, ExitCall)
               ELSE IF dir_state = "missing"
               THEN Exit(<<"File Path", "ERROR: File does NOT exist!",
                           "Files in directory:",
                           "ERROR: Directory does not exist either!">>, ExitCall)
               ELSE Exit(<<"File Path", "ERROR: File does NOT exist!",
                           "Files in directory:", "Traceback">>, UncaughtExit)
       ELSE /\ stdout' = stdout \o <<"File Path", "File exists. Proceeding...">>
            /\ q_pc' = "read"
            /\ UNCHANGED exit_status
    /\ UNCHANGED <<file_exists, dir_state, csv, df, data>>
    /\ UNCHANGED t_vars

\* quantsc.py:23-41
ReadCsv ==
    /\ q_pc = "read"
    /\ IF csv.readable
       THEN /\ df' = ReadCsvTable(csv.rows)
            /\ stdout' = stdout \o <<"Raw Data", "Data Shape">>
            /\ q_pc' = "dropna"
            /\ UNCHANGED exit_status
       ELSE /\ Exit(<<"ERROR reading file">>, ExitCall)
            /\ UNCHANGED df
    /\ UNCHANGED <<file_exists, dir_state, csv, data>>
    /\ UNCHANGED t_vars

\* quantsc.py:44
DropNaStep ==
    /\ q_pc = "dropna"
    /\ df' = DropNa(df)
    /\ q_pc' = "dates"
    /\ UNCHANGED <<file_exists, dir_state, csv, data, stdout, exit_status>>
    /\ UNCHANGED t_vars

\* quantsc.py:47-64, and the handler of quantsc.py:86-88
DeriveDates ==
    /\ q_pc = "dates"
    /\ IF DatesRaise(df)
       THEN /\ Exit(<<"ERROR processing dates">>, ExitCall)
            /\ UNCHANGED df
       ELSE /\ df' = WithDates(df)
            /\ q_pc' = "extract"
            /\ UNCHANGED <<stdout, exit_status>>
    /\ UNCHANGED <<file_exists, dir_state, csv, data>>
    /\ UNCHANGED t_vars

\* quantsc.py:67-73, and the handlers of quantsc.py:83-88
ExtractColumns ==
    /\ q_pc = "extract"
    /\ LET exc == ExtractException(csv.has_nino34, df)
       IN  IF exc = "none"
           THEN /\ df' = WithColumns(df)
                /\ q_pc' = "report"
                /\ UNCHANGED <<stdout, exit_status>>
           ELSE /\ Exit(<<IF exc = "ValueError" THEN "ERROR processing dates"
                          ELSE "ERROR processing data">>, ExitCall)
                /\ UNCHANGED df
    /\ UNCHANGED <<file_exists, dir_state, csv, data>>
    /\ UNCHANGED t_vars

\* quantsc.py:76-81, and the end of the script
Report ==
    /\ q_pc = "report"
    /\ data' = CleanedTable(df)
    /\ stdout' = stdout \o <<"Cleaned Data", "Cleaned Data Info">>
    /\ exit_status' = 0
    /\ q_pc' = "done"
    /\ UNCHANGED <<file_exists, dir_state, csv, df>>
    /\ UNCHANGED t_vars

NextQuantsc ==
    CheckPath \/ ReadCsv \/ DropNaStep \/ DeriveDates \/ ExtractColumns \/ Report

SpecQuantsc == InitQuantsc /\ [][NextQuantsc]_vars

(***************************************************************************)
(* Claims about quantsc.py, checked under SpecQuantsc                      *)
(***************************************************************************)
\* the table the date derivation of quantsc.py:47 starts from
RowsRead == DropNa(ReadCsvTable(csv.rows))

\* an unsigned decimal: digits, a point, digits
IsUnsignedDecimal(text) ==
    LET e1 == DigitsEnd(text, 0)
        e2 == DigitsEnd(text, e1 + 1)
    IN  e1 > 0 /\ CharAt(text, e1) = "." /\ e2 > e1 + 1 /\ e2 = Len(text)

\* a cell of the form <sst>-<magnitude>
IsHyphenPair(text) ==
    LET parts == SplitOn(text, "-")
    IN  Len(parts) = 2 /\ IsUnsignedDecimal(parts[1]) /\ IsUnsignedDecimal(parts[2])

\* a week label DDMmmYYYY that names a calendar day
IsDateLabel(week) ==
    /\ Len(week) = 9
    /\ AllDigits(SubSeq(week, 1, 2)) /\ AllDigits(SubSeq(week, 6, 9))
    /\ MonthIndex(SubSeq(week, 3, 5)) # 0
    /\ DigitsValue(SubSeq(week, 1, 2)) >= 1
    /\ DigitsValue(SubSeq(week, 1, 2))
           <= DaysInMonth(DigitsValue(SubSeq(week, 6, 9)), MonthIndex(SubSeq(week, 3, 5)))

\* C3: a row with a Nino34 cell <sst>-<magnitude> and a valid week label is in the
\* cleaned table with the label's date, Nino34_SST = <sst> and
\* Nino34_SSTA = -<magnitude>.
C3_NegativeAnomalyKept ==
    q_pc = "done" =>
        \A n \in DOMAIN csv.rows :
            LET r == csv.rows[n]
                parts == SplitOn(r.Nino34, "-")
            IN  (IsHyphenPair(r.Nino34) /\ IsDateLabel(r.Week)) =>
                    \E k \in DOMAIN data :
                        /\ data[k].Week = r.Week
                        /\ data[k].Date.year = DigitsValue(SubSeq(r.Week, 6, 9))
                        /\ data[k].Date.month = MonthIndex(SubSeq(r.Week, 3, 5))
                        /\ data[k].Date.day = DigitsValue(SubSeq(r.Week, 1, 2))
                        /\ data[k].Nino34_SST = Number(Float(parts[1]))
                        /\ data[k].Nino34_SSTA =
                               [none |-> FALSE, num |-> 0 - Float(parts[2]).num,
                                exp |-> Float(parts[2]).exp]

\* C6: when the file does not exist the script prints the directory's listing or
\* that the directory is missing too, reads nothing, produces no table, and ends
\* with a non-zero exit status.
C6_MissingFileExitsNonZero ==
    (q_pc = "exited" /\ ~file_exists) =>
        /\ \E k \in DOMAIN stdout :
               stdout[k] \in {"listing", "ERROR: Directory does not exist either!"}
        /\ \A k \in DOMAIN stdout : stdout[k] \notin {"Raw Data", "Cleaned Data"}
        /\ df = <<>> /\ data = <<>>
        /\ exit_status # 0

HasIntDayYear(week) ==
    LET signed(t) == AllDigits(IF CharAt(t, 0) \in {"-", "+"} THEN Tail(t) ELSE t)
    IN  signed(Slice(week, 0, 2)) /\ signed(Tail_n(week, 4))

Weeks(rows) == [k \in DOMAIN rows |-> rows[k].Week]

\* C7 as amended, for one step: the date derivation exits the run ("ERROR processing dates", no
\* cleaned table) exactly when some label's first two or last four characters are
\* no integer; otherwise it drops the rows whose label names no calendar day, each
\* alone, keeps the others in order with the date their label names, and goes on.
C7_Step ==
    q_pc = "dates" =>
        IF \E k \in DOMAIN df : ~HasIntDayYear(df[k].Week)
        THEN /\ q_pc' = "exited"
             /\ stdout'[Len(stdout')] = "ERROR processing dates"
             /\ data' = <<>>
        ELSE /\ q_pc' = "extract"
             /\ LET named(w) == IsDateLabel(w)
                IN  Weeks(df') = SelectSeq(Weeks(df), named)
             /\ \A k \in DOMAIN df' :
                    /\ df'[k].Date.year = DigitsValue(SubSeq(df'[k].Week, 6, 9))
                    /\ df'[k].Date.month = MonthIndex(SubSeq(df'[k].Week, 3, 5))
                    /\ df'[k].Date.day = DigitsValue(SubSeq(df'[k].Week, 1, 2))

====
